---- MODULE Spec2Model ----
(***************************************************************************)
(* Model of server.js: the buffered execution path.                        *)
(*                                                                         *)
(*   CONFIG                          environment-derived configuration     *)
(*   executeClaudeCode /             one child process per call: spawn,    *)
(*   executeGeminiCLI                timer, data/error/close handlers and  *)
(*                                   the promise they settle               *)
(*   executeAICLI                    primary attempt, then fallback        *)
(*   POST /api/ask, /api/process,    the handlers that call executeAICLI   *)
(*   GET /api/test                                                         *)
(*                                                                         *)
(* JavaScript values are modelled as strings.  Undefined stands for the    *)
(* value `undefined` (an absent field or environment variable), "true" and *)
(* "false" stand for the JSON booleans.  A string is a sequence of tokens  *)
(* wherever the code concatenates (stdout, stderr, error messages).        *)
(***************************************************************************)
EXTENDS Integers, Sequences, FiniteSets, TLC

\* ---------------------------------------------------------------------
\* Bounds
\* ---------------------------------------------------------------------

\* data chunks (stdout and stderr together) one child process writes
MaxChunks == 1

\* stdout and stderr chunks of one streaming process
MaxStreamChunks == 2

\* items of an accepted batch
MaxBatchItems == 2

\* ---------------------------------------------------------------------
\* JavaScript values
\* ---------------------------------------------------------------------

Undefined == "<undefined>"

\* JS truthiness of the values used here: undefined, false and "" are falsy
Truthy(v) == v \notin {Undefined, "false", ""}

\* a || b
JsOr(a, b) == IF Truthy(a) THEN a ELSE b

\* ---------------------------------------------------------------------
\* Input domains
\* ---------------------------------------------------------------------

\* process.env.ENABLE_FALLBACK
EnvFallbackValues == {Undefined, "true", "false"}

\* process.env.DEFAULT_CLI
EnvDefaultCLIValues == {Undefined, "gemini", "other"}

\* process.env as the server reads it at start-up: the two variables are read
\* independently of each other, so each is varied with the other one unset
Environments ==
    {e \in [ENABLE_FALLBACK : EnvFallbackValues, DEFAULT_CLI : EnvDefaultCLIValues] :
        e.ENABLE_FALLBACK = Undefined \/ e.DEFAULT_CLI = Undefined}

\* body.cli / query.cli
SelectorValues == {Undefined, "", "claude", "gemini", "gpt"}

\* body.disableFallback
DisableFallbackValues == {Undefined, "true"}

\* a prompt of MAX_PROMPT_LENGTH + 1 characters
LongPrompt == "Y repeated 100001 times"

\* body.prompt
PromptValues == {Undefined, "", "Y", LongPrompt}

\* body.outputFormat
FormatValues == {Undefined, "text", "xml"}

\* body.systemPrompt
SystemPromptValues == {"X"}

\* body.model
ModelValues == {Undefined}

\* body.timeout
TimeoutValues == {Undefined}

\* data chunks on the child's stdout: a JSON object, a JSON number
Chunks == {"{}", "1"}

\* data chunks on the child's stderr
ErrChunks == {"oops"}

\* exit codes of a process that ran; "null" is the code of a close
\* after death by signal
ExitCodes == {"0", "1", "null"}

\* the code reported by close after a failed spawn (negative errno)
SpawnErrCode == "-2"

\* an object with none of the fields set
EmptyBody ==
    [prompt |-> Undefined, outputFormat |-> Undefined, model |-> Undefined,
     systemPrompt |-> Undefined, cli |-> Undefined, disableFallback |-> Undefined,
     timeout |-> Undefined]

\* req.body of POST /api/ask and POST /api/process
Bodies ==
    [prompt : PromptValues, outputFormat : FormatValues, model : ModelValues,
     systemPrompt : SystemPromptValues, cli : SelectorValues,
     disableFallback : DisableFallbackValues, timeout : TimeoutValues]

Requests ==
    {[endpoint |-> e, query |-> [cli |-> Undefined], body |-> b] :
        e \in {"ask", "process"}, b \in Bodies}
    \cup {[endpoint |-> "test", query |-> [cli |-> c], body |-> EmptyBody] :
        c \in SelectorValues}

\* body.timeout of POST /api/stream, in milliseconds
StreamTimeoutValues == {Undefined, "1"}

\* req.body of POST /api/stream has the same fields
StreamRequests ==
    {[endpoint |-> "stream", query |-> [cli |-> Undefined],
      body |-> [b EXCEPT !.timeout = t]] : b \in Bodies, t \in StreamTimeoutValues}

\* what a streaming process writes to its stdout
StreamChunks == {"a", "b"}

\* the options objects argument construction is applied to: every field
\* the three constructions read; the session and permission fields vary
\* freely together, the other fields only executeClaudeCode reads are
\* varied one at a time
ToolLists == {<<>>, <<"Read", "Edit">>}
ArgOptionsValues ==
    {o \in [prompt : {"Y"}, outputFormat : {Undefined, "stream-json"},
            model : {Undefined, "opus"}, systemPrompt : {Undefined, "X"},
            appendSystemPrompt : {Undefined, "A"},
            allowedTools : ToolLists, disallowedTools : {<<>>, <<"Bash">>},
            dangerouslySkipPermissions : {Undefined, "true"},
            settings : {Undefined, "S"}, mcpConfig : {<<>>, <<"mcp.json">>},
            sessionId : {Undefined, "s1"}, continueSession : {Undefined, "true"},
            resumeSession : {Undefined, "r1"},
            includePartialMessages : {Undefined, "false"},
            cli : {Undefined, "gemini"}] :
        Cardinality({f \in {"settings", "continueSession"} : o[f] # Undefined}
                    \cup {f \in {"disallowedTools", "mcpConfig"} : o[f] # <<>>}) <= 1}

\* if (prompts.length > 10)
MaxBatchPrompts == 10

\* accepted batches have up to MaxBatchItems items
BatchItemValues ==
    {[prompt |-> "Y", model |-> Undefined, systemPrompt |-> Undefined, cli |-> Undefined],
     [prompt |-> "", model |-> Undefined, systemPrompt |-> Undefined, cli |-> "gemini"]}

\* the elements of a prompts array: a string item is written as an object
\* with only its prompt (the code reads the other fields as undefined)
BatchPromptLists ==
    UNION {[1..n -> BatchItemValues] : n \in 0..MaxBatchItems}
    \cup {[k \in 1..(MaxBatchPrompts + 1) |->
             [prompt |-> "Y", model |-> Undefined, systemPrompt |-> Undefined,
              cli |-> Undefined]]}

\* req.body of POST /api/batch: prompts and the other fields
\* (commonOptions). Lists of several items are run with disableFallback
\* set and the default output format, one process per item; fallback and
\* an output format of the body are exercised by the one-item lists.
BatchBodies ==
    {b \in [isArray : {TRUE}, prompts : BatchPromptLists,
            common : {[EmptyBody EXCEPT !.disableFallback = df, !.outputFormat = f] :
                        df \in DisableFallbackValues, f \in {Undefined, "xml"}}] :
        Len(b.prompts) > 1 =>
            b.common.disableFallback = "true" /\ b.common.outputFormat = Undefined}
    \cup {[isArray |-> FALSE, prompts |-> <<>>, common |-> EmptyBody]}

BatchRequests ==
    {[endpoint |-> "batch", query |-> [cli |-> Undefined], body |-> b] :
        b \in BatchBodies}

\* ---------------------------------------------------------------------
\* State
\* ---------------------------------------------------------------------

VARIABLES
    env,        \* process.env: ENABLE_FALLBACK, DEFAULT_CLI
    req,        \* the HTTP request: endpoint and body (query for /api/test)
    pc,         \* position of the handler / executeAICLI
    options,    \* the options object handed to executeAICLI
    callOptions,\* history: the options object as it was when executeAICLI was called
    preferredCLI, \* second argument of executeAICLI
    locals,     \* executeAICLI's constants: cliToUse, enableFallback, primaryCLI, fallbackCLI
    proc,       \* proc[1]: primary executor call, proc[2]: fallback executor call
    spawned,    \* history: commands passed to spawn(), in order
    result,     \* what executeAICLI returned or threw
    response,   \* what the handler sent
    cliProcess, \* POST /api/stream: the processes spawned for the request, in order
    res,        \* POST /api/stream: the response stream (the sink)
    connected,  \* POST /api/stream: the client has not disconnected
    batch,      \* POST /api/batch: loop index, results, errors, processes left running
    argOptions, \* argument construction: the options object / request body
    argv        \* argument construction: the argument lists built from argOptions

\* the state of the streaming relay
svars == <<cliProcess, res, connected>>

\* the state of argument construction taken alone
avars == <<argOptions, argv>>

vars == <<env, req, pc, options, callOptions, preferredCLI, locals, proc, spawned,
          result, response, svars, batch, avars>>

\* ---------------------------------------------------------------------
\* CONFIG (server.js 15-29)
\* ---------------------------------------------------------------------

\* process.env.DEFAULT_CLI || "claude"
DEFAULT_CLI == JsOr(env.DEFAULT_CLI, "claude")

\* process.env.ENABLE_FALLBACK === "true" || true
ENABLE_FALLBACK == (env.ENABLE_FALLBACK = "true") \/ TRUE

\* ---------------------------------------------------------------------
\* validateRequest (server.js 430-451)
\* ---------------------------------------------------------------------

\* CONFIG.MAX_PROMPT_LENGTH with no environment set
MAX_PROMPT_LENGTH == 100000

\* prompt.length: LongPrompt stands for a string of MAX_PROMPT_LENGTH + 1
\* characters, the other prompts are written out
PromptLength(prompt) ==
    IF prompt = LongPrompt THEN MAX_PROMPT_LENGTH + 1
    ELSE IF prompt = "" THEN 0 ELSE 1

validateRequest(body) ==
    (IF ~Truthy(body.prompt) THEN <<"prompt is required">> ELSE <<>>)
    \o (IF Truthy(body.prompt) /\ PromptLength(body.prompt) > MAX_PROMPT_LENGTH
        THEN <<"prompt exceeds maximum length of 100000 characters">>
        ELSE <<>>)
    \o (IF Truthy(body.outputFormat)
           /\ body.outputFormat \notin {"text", "json", "stream-json"}
        THEN <<"outputFormat must be one of: text, json, stream-json">>
        ELSE <<>>)

\* ---------------------------------------------------------------------
\* parseOutput (server.js 416-425)
\* ---------------------------------------------------------------------

\* JSON.parse of the concatenated chunks: "{}" is an object, a run of "1"
\* digits is a number, anything else (the empty string included) throws
JSONParses(stdout) ==
    \/ stdout = <<"{}">>
    \/ Len(stdout) > 0 /\ \A k \in 1..Len(stdout) : stdout[k] = "1"

JSONTypeOf(stdout) == IF stdout = <<"{}">> THEN "object" ELSE "number"

\* a catch branch that returns the raw text with no tag
parseOutputUntagged(stdout, outputFormat) ==
    [type |-> IF outputFormat = "json" /\ JSONParses(stdout)
              THEN JSONTypeOf(stdout) ELSE "object",
     value |-> stdout, raw |-> FALSE]

\* a value of type "object" is what parseOutput itself builds around stdout
\* ({ response } or { response, raw: true, parseError }) or a parsed JSON
\* object; raw is the tag of undecodable output
parseOutput(stdout, outputFormat) ==
    IF outputFormat = "json"
    THEN IF JSONParses(stdout)
         THEN [type |-> JSONTypeOf(stdout), value |-> stdout, raw |-> FALSE]
         ELSE [type |-> "object", value |-> stdout, raw |-> TRUE]
    ELSE [type |-> "object", value |-> stdout, raw |-> FALSE]

\* ---------------------------------------------------------------------
\* Errors and promises
\* ---------------------------------------------------------------------

NoError == [id |-> <<"none", 0>>, message |-> <<>>]

\* new Error(message): a fresh object.  Each `new Error` of the code runs at
\* most once per executor call, so the place and the call identify the object.
NewError(site, i, message) == [id |-> <<site, i>>, message |-> message]

Pending == [state |-> "pending", stdout |-> <<>>, stderr |-> <<>>, reason |-> NoError]

Fulfilled(out, err) ==
    [state |-> "fulfilled", stdout |-> out, stderr |-> err, reason |-> NoError]

Rejected(e) == [state |-> "rejected", stdout |-> <<>>, stderr |-> <<>>, reason |-> e]

\* a promise that takes the outcome of the last call of resolve / reject
SettleLastWins(p, outcome) == outcome

\* resolve() / reject() on a promise: only the first call settles it
Settle(p, outcome) == IF p.state = "pending" THEN outcome ELSE p

\* ---------------------------------------------------------------------
\* Argument construction: mapToGeminiArgs (server.js 101-153),
\* executeClaudeCode (224-295), POST /api/stream (590-626)
\* ---------------------------------------------------------------------

\* CONFIG.CLAUDE_DEFAULT_MODEL, CONFIG.GEMINI_DEFAULT_MODEL with no environment set
CLAUDE_DEFAULT_MODEL == "sonnet"
GEMINI_DEFAULT_MODEL == "gemini-2.5-flash"

getDefaultModel(cli) ==
    IF cli = "gemini" THEN GEMINI_DEFAULT_MODEL ELSE CLAUDE_DEFAULT_MODEL

\* a destructuring default `field = d`: it applies to undefined only
Default(v, d) == IF v = Undefined THEN d ELSE v

\* An argument is a string, written as the sequence of its pieces; Words
\* makes one argument of each string of a list
Words(list) == [k \in DOMAIN list |-> <<list[k]>>]

\* list.join(" ")
Join(list) ==
    [k \in 1..(2 * Len(list) - 1) |-> IF k % 2 = 1 THEN list[(k + 1) \div 2] ELSE " "]

\* JSON.stringify(settings)
Stringify(v) == <<"JSON:", v>>

\* a rewrite that drops the labels
SystemUserPromptNoLabels(systemPrompt, prompt) == <<systemPrompt, "\n\n", prompt>>

\* `System: ${systemPrompt}\n\nUser: ${prompt}`
SystemUserPrompt(systemPrompt, prompt) == <<"System: ", systemPrompt, "\n\nUser: ", prompt>>

\* `${appendSystemPrompt}\n\n${prompt}`
AppendedPrompt(appendSystemPrompt, prompt) == <<appendSystemPrompt, "\n\n", prompt>>

\* an options object / request body with every field absent (a list that
\* is absent and an empty list are treated alike by the code)
NoArgOptions ==
    [prompt |-> Undefined, outputFormat |-> Undefined, model |-> Undefined,
     systemPrompt |-> Undefined, appendSystemPrompt |-> Undefined,
     allowedTools |-> <<>>, disallowedTools |-> <<>>,
     dangerouslySkipPermissions |-> Undefined, settings |-> Undefined,
     mcpConfig |-> <<>>, sessionId |-> Undefined, continueSession |-> Undefined,
     resumeSession |-> Undefined, includePartialMessages |-> Undefined,
     cli |-> Undefined]

\* a construction that pushes the prompt before the flags
PushPromptFirst(args, prompt) == <<prompt>> \o args

\* args.push(prompt) / args.push(finalPrompt), the last statement of each
\* construction
PushPrompt(args, prompt) == args \o <<prompt>>

\* a construction without the else: the tools follow --yolo
GeminiToolArgsBoth(o) ==
    (IF Truthy(Default(o.dangerouslySkipPermissions, "false"))
     THEN Words(<<"--yolo">>) ELSE <<>>)
    \o (IF Len(o.allowedTools) > 0
        THEN Words(<<"--allowed-tools">>) \o Words(o.allowedTools) ELSE <<>>)

\* if (dangerouslySkipPermissions) ... else if (allowedTools && allowedTools.length > 0)
GeminiToolArgs(o) ==
    IF Truthy(Default(o.dangerouslySkipPermissions, "false"))
    THEN Words(<<"--yolo">>)
    ELSE IF Len(o.allowedTools) > 0
         THEN Words(<<"--allowed-tools">>) \o Words(o.allowedTools)
         ELSE <<>>

\* a construction without the else: one --resume per field
GeminiSessionArgsBoth(o) ==
    (IF Truthy(o.resumeSession) THEN Words(<<"--resume", o.resumeSession>>) ELSE <<>>)
    \o (IF Truthy(o.sessionId) THEN Words(<<"--resume", "latest">>) ELSE <<>>)

\* if (resumeSession) ... else if (sessionId)
GeminiSessionArgs(o) ==
    IF Truthy(o.resumeSession)
    THEN Words(<<"--resume", o.resumeSession>>)
    ELSE IF Truthy(o.sessionId)
         THEN Words(<<"--resume", "latest">>)
         ELSE <<>>

\* the argument list of the gemini command
mapToGeminiArgs(o) ==
    LET outputFormat == Default(o.outputFormat, "json")
        model == Default(o.model, getDefaultModel("gemini"))
        finalPrompt == IF Truthy(o.systemPrompt)
                       THEN SystemUserPrompt(o.systemPrompt, o.prompt)
                       ELSE <<o.prompt>>
    IN PushPrompt(
         Words(<<"--output-format",
                 IF outputFormat \in {"stream-json", "json"} THEN outputFormat ELSE "text">>)
         \o Words(<<"--model", model>>)
         \o GeminiToolArgs(o)
         \o GeminiSessionArgs(o),
         finalPrompt)

\* a construction in which the session flags exclude one another
ClaudeSessionArgsExclusive(o) ==
    IF Truthy(Default(o.continueSession, "false"))
    THEN Words(<<"--continue">>)
    ELSE IF Truthy(o.resumeSession)
         THEN Words(<<"--resume", o.resumeSession>>)
         ELSE IF Truthy(o.sessionId)
              THEN Words(<<"--session-id", o.sessionId>>)
              ELSE <<>>

\* if (continueSession) ...  if (resumeSession) ...  if (sessionId) ...
ClaudeSessionArgs(o) ==
    (IF Truthy(Default(o.continueSession, "false"))
     THEN Words(<<"--continue">>) ELSE <<>>)
    \o (IF Truthy(o.resumeSession)
        THEN Words(<<"--resume", o.resumeSession>>) ELSE <<>>)
    \o (IF Truthy(o.sessionId)
        THEN Words(<<"--session-id", o.sessionId>>) ELSE <<>>)

\* the argument list executeClaudeCode builds for the claude command
ClaudeArgs(o) ==
    LET outputFormat == Default(o.outputFormat, "json")
        model == Default(o.model, getDefaultModel("claude"))
    IN PushPrompt(
       Words(<<"--print", "--output-format", outputFormat>>)
       \o (IF Truthy(Default(o.includePartialMessages, "false"))
              /\ outputFormat = "stream-json"
           THEN Words(<<"--include-partial-messages">>) ELSE <<>>)
       \o (IF Truthy(model) THEN Words(<<"--model", model>>) ELSE <<>>)
       \o (IF Truthy(o.systemPrompt)
           THEN Words(<<"--system-prompt", o.systemPrompt>>) ELSE <<>>)
       \o (IF Truthy(o.appendSystemPrompt)
           THEN Words(<<"--append-system-prompt", o.appendSystemPrompt>>) ELSE <<>>)
       \o (IF Len(o.allowedTools) > 0
           THEN <<<<"--allowed-tools">>, Join(o.allowedTools)>> ELSE <<>>)
       \o (IF Len(o.disallowedTools) > 0
           THEN <<<<"--disallowed-tools">>, Join(o.disallowedTools)>> ELSE <<>>)
       \o (IF Truthy(Default(o.dangerouslySkipPermissions, "false"))
           THEN Words(<<"--dangerously-skip-permissions">>) ELSE <<>>)
       \o (IF Truthy(o.settings)
           THEN <<<<"--settings">>, Stringify(o.settings)>> ELSE <<>>)
       \o (IF Len(o.mcpConfig) > 0
           THEN Words(<<"--mcp-config">>) \o Words(o.mcpConfig) ELSE <<>>)
       \o ClaudeSessionArgs(o),
       <<o.prompt>>)

\* the command POST /api/stream spawns for the body
StreamCommand(body) ==
    IF JsOr(body.cli, DEFAULT_CLI) = "gemini" THEN "gemini" ELSE "claude"

\* the argument list POST /api/stream builds for the body
StreamArgs(body) ==
    LET cliToUse == JsOr(body.cli, DEFAULT_CLI)
        modelToUse == JsOr(body.model, getDefaultModel(cliToUse))
    IN IF cliToUse = "gemini"
       THEN PushPrompt(
              Words(<<"--output-format", "stream-json", "--model", modelToUse>>),
              IF Truthy(body.systemPrompt)
              THEN SystemUserPrompt(body.systemPrompt, body.prompt)
              ELSE IF Truthy(body.appendSystemPrompt)
                   THEN AppendedPrompt(body.appendSystemPrompt, body.prompt)
                   ELSE <<body.prompt>>)
       ELSE PushPrompt(
            Words(<<"--print", "--output-format", "stream-json">>)
            \o (IF Truthy(Default(body.includePartialMessages, "true"))
                THEN Words(<<"--include-partial-messages">>) ELSE <<>>)
            \o Words(<<"--model", modelToUse>>)
            \o (IF Truthy(body.systemPrompt)
                THEN Words(<<"--system-prompt", body.systemPrompt>>) ELSE <<>>)
            \o (IF Truthy(body.appendSystemPrompt)
                THEN Words(<<"--append-system-prompt", body.appendSystemPrompt>>)
                ELSE <<>>),
            <<body.prompt>>)

\* nothing built yet
NoArgv ==
    [built |-> {}, gemini |-> <<>>, claude |-> <<>>, command |-> Undefined,
     stream |-> <<>>]

\* const args = mapToGeminiArgs(options) in executeGeminiCLI
BuildGeminiArgs ==
    /\ "gemini" \notin argv.built
    /\ Truthy(argOptions.prompt)
    /\ argv' = [argv EXCEPT !.built = @ \cup {"gemini"},
                            !.gemini = mapToGeminiArgs(argOptions)]
    /\ UNCHANGED <<env, req, pc, options, callOptions, preferredCLI, locals, proc,
                   spawned, result, response, svars, batch, argOptions>>

\* the construction of args in executeClaudeCode
BuildClaudeArgs ==
    /\ "claude" \notin argv.built
    /\ Truthy(argOptions.prompt)
    /\ argv' = [argv EXCEPT !.built = @ \cup {"claude"},
                            !.claude = ClaudeArgs(argOptions)]
    /\ UNCHANGED <<env, req, pc, options, callOptions, preferredCLI, locals, proc,
                   spawned, result, response, svars, batch, argOptions>>

\* the construction of command and args in POST /api/stream
BuildStreamArgs ==
    /\ "stream" \notin argv.built
    /\ Truthy(argOptions.prompt)
    /\ argv' = [argv EXCEPT !.built = @ \cup {"stream"},
                            !.command = StreamCommand(argOptions),
                            !.stream = StreamArgs(argOptions)]
    /\ UNCHANGED <<env, req, pc, options, callOptions, preferredCLI, locals, proc,
                   spawned, result, response, svars, batch, argOptions>>

\* ---------------------------------------------------------------------
\* executeClaudeCode (server.js 224-353), executeGeminiCLI (158-219)
\* ---------------------------------------------------------------------

\* the command the executor of backend cli passes to spawn()
CommandOf(cli) == IF cli = "claude" THEN "claude" ELSE "gemini"

\* error.message of the 'error' event of a failed spawn
OsErrorMessage(cli) == <<"spawn ", CommandOf(cli), " ENOENT">>

TimeoutMessage == <<"Request timeout exceeded">>

SpawnFailMessage(cli) ==
    (IF cli = "claude" THEN <<"Failed to spawn Claude Code: ">>
                       ELSE <<"Failed to spawn Gemini CLI: ">>)
    \o OsErrorMessage(cli)

ExitMessage(cli, code, stderr) ==
    (IF cli = "claude" THEN <<"Claude Code exited with code ", code, ": ">>
                       ELSE <<"Gemini CLI exited with code ", code, ": ">>)
    \o stderr

NoProc ==
    [cli |-> "none", options |-> EmptyBody, os |-> "none", timer |-> "none",
     killed |-> FALSE, sigterm |-> FALSE, stdout |-> <<>>, stderr |-> <<>>,
     code |-> Undefined, promise |-> Pending]

\* the synchronous part of an executor call: spawn(), the locals, setTimeout().
\* (spawn's own `timeout` option arms a timer of the same length just before
\* this one; both expire in the same turn of the event loop, so the SIGTERM
\* of TimerFire stands for both.)
\* spawn() returns a child object also when the OS cannot start the command
\* (started = FALSE): its 'error' event is then emitted on the next tick.
NewProc(cli, opts, started) ==
    [cli |-> cli, options |-> opts,
     os |-> IF started THEN "running" ELSE "spawnfail",
     timer |-> "armed", killed |-> FALSE, sigterm |-> FALSE,
     stdout |-> <<>>, stderr |-> <<>>, code |-> Undefined, promise |-> Pending]

\* stdout.on("data")
StdoutData(i) ==
    /\ proc[i].os = "running"
    /\ Len(proc[i].stdout) + Len(proc[i].stderr) < MaxChunks
    /\ \E c \in Chunks :
         proc' = [proc EXCEPT ![i].stdout = Append(@, c)]
    /\ UNCHANGED <<avars, batch, svars, env, req, pc, options, callOptions, preferredCLI, locals,
                   spawned, result, response>>

\* stderr.on("data")
StderrData(i) ==
    /\ proc[i].os = "running"
    /\ Len(proc[i].stdout) + Len(proc[i].stderr) < MaxChunks
    /\ \E c \in ErrChunks :
         proc' = [proc EXCEPT ![i].stderr = Append(@, c)]
    /\ UNCHANGED <<avars, batch, svars, env, req, pc, options, callOptions, preferredCLI, locals,
                   spawned, result, response>>

\* a timeout callback that kills the process and leaves the promise alone
TimeoutOutcomeNoReject(i, p) ==
    [p EXCEPT !.killed = TRUE,
              !.sigterm = (p.os = "running"),
              !.timer = "fired"]

\* a timeout callback that only kills: the close handler then decides
TimeoutOutcomeKillOnly(i, p) ==
    [p EXCEPT !.sigterm = (p.os = "running"),
              !.timer = "fired"]

\* what the setTimeout callback does to the executor call: killed = true,
\* kill("SIGTERM") (which signals a process that is running), reject(...)
TimeoutOutcome(i, p) ==
    [p EXCEPT !.killed = TRUE,
              !.sigterm = (p.os = "running"),
              !.timer = "fired",
              !.promise = Settle(@, Rejected(NewError("timeout", i, TimeoutMessage)))]

\* the setTimeout callback; a failed spawn's 'error' event (next tick) is
\* always handled before any timer
TimerFire(i) ==
    /\ proc[i].timer = "armed"
    /\ proc[i].os # "spawnfail"
    /\ proc' = [proc EXCEPT ![i] = TimeoutOutcome(i, proc[i])]
    /\ UNCHANGED <<avars, batch, svars, env, req, pc, options, callOptions, preferredCLI, locals,
                   spawned, result, response>>

\* an error handler that rejects without clearTimeout
SpawnErrorOutcomeKeepsTimer(i, p) ==
    [p EXCEPT !.os = "errored",
              !.promise = Settle(@, Rejected(NewError("spawn", i, SpawnFailMessage(p.cli))))]

\* what the error handler does to the executor call: clearTimeout, reject(...)
SpawnErrorOutcome(i, p) ==
    [p EXCEPT !.os = "errored",
              !.timer = "cleared",
              !.promise = Settle(@, Rejected(NewError("spawn", i, SpawnFailMessage(p.cli))))]

\* on("error")
ErrorEvent(i) ==
    /\ proc[i].os = "spawnfail"
    /\ proc' = [proc EXCEPT ![i] = SpawnErrorOutcome(i, proc[i])]
    /\ UNCHANGED <<avars, batch, svars, env, req, pc, options, callOptions, preferredCLI, locals,
                   spawned, result, response>>

\* a close handler that tests the exit code for truthiness: `if (code)`
CloseOutcomeTruthyCode(i, p, code) ==
    IF p.killed
    THEN p.promise
    ELSE IF code \notin {"0", "null"}
         THEN Settle(p.promise, Rejected(NewError("exit", i, ExitMessage(p.cli, code, p.stderr))))
         ELSE Settle(p.promise, Fulfilled(p.stdout, p.stderr))

\* what the close handler does to the promise, given the exit code
CloseOutcome(i, p, code) ==
    IF p.killed
    THEN p.promise
    ELSE IF code # "0"
         THEN Settle(p.promise, Rejected(NewError("exit", i, ExitMessage(p.cli, code, p.stderr))))
         ELSE Settle(p.promise, Fulfilled(p.stdout, p.stderr))

\* a close handler that leaves the timer alone
ClearTimeoutKept(timer) == timer

\* clearTimeout(timeoutHandle) in the close handler: it cancels a timer
\* that has not fired
ClearTimeout(timer) == IF timer = "armed" THEN "cleared" ELSE timer

\* on("close"): after the process ended and its stdio closed, or after
\* the 'error' event of a failed spawn (then with a negative code)
CloseEvent(i) ==
    /\ proc[i].os \in {"running", "errored"}
    /\ \E code \in (IF proc[i].os = "errored" THEN {SpawnErrCode} ELSE ExitCodes) :
         /\ proc' = [proc EXCEPT ![i].os = "closed",
                                 ![i].code = code,
                                 ![i].timer = ClearTimeout(@),
                                 ![i].promise = CloseOutcome(i, proc[i], code)]
    /\ UNCHANGED <<avars, batch, svars, env, req, pc, options, callOptions, preferredCLI, locals,
                   spawned, result, response>>

\* ---------------------------------------------------------------------
\* executeAICLI (server.js 361-411)
\* ---------------------------------------------------------------------

\* preferredCLI || options.cli || CONFIG.DEFAULT_CLI
CliToUse(opts, preferred) == JsOr(preferred, JsOr(opts.cli, DEFAULT_CLI))

\* CONFIG.ENABLE_FALLBACK && !options.disableFallback
EnableFallback(opts) == ENABLE_FALLBACK /\ ~Truthy(opts.disableFallback)

\* mutant of PrimaryCLI: the selector is used as it is
PrimaryCLIUnchecked(cliToUse) == cliToUse

\* cliToUse === "gemini" ? "gemini" : "claude"
PrimaryCLI(cliToUse) == IF cliToUse = "gemini" THEN "gemini" ELSE "claude"

\* primaryCLI === "claude" ? "gemini" : "claude"
FallbackCLI(primary) == IF primary = "claude" THEN "gemini" ELSE "claude"

\* mutant of AggregateMessage: the primary's message is left out
AggregateMessageFallbackOnly(primary, primaryMsg, fallback, fallbackMsg) ==
    <<"Both CLIs failed. Primary (", primary, "): ">>
    \o <<". Fallback (", fallback, "): ">> \o fallbackMsg

\* the message of the error thrown when both attempts failed
AggregateMessage(primary, primaryMsg, fallback, fallbackMsg) ==
    <<"Both CLIs failed. Primary (", primary, "): ">> \o primaryMsg
    \o <<". Fallback (", fallback, "): ">> \o fallbackMsg

\* the options object an attempt is run with
PrimaryOptions(opts) == opts

\* mutant of FallbackOptions: the fallback is run with fallback switched off
FallbackOptionsNoFurtherFallback(opts) == [opts EXCEPT !.disableFallback = "true"]

FallbackOptions(opts) == opts

NoResult ==
    [kind |-> "none", stdout |-> <<>>, stderr |-> <<>>, usedCLI |-> Undefined,
     fallbackUsed |-> Undefined, error |-> NoError]

\* { ...result, usedCLI } and { ...result, usedCLI, fallbackUsed: true }
Return(p, cli, fallbackUsed) ==
    [kind |-> "return", stdout |-> p.stdout, stderr |-> p.stderr, usedCLI |-> cli,
     fallbackUsed |-> fallbackUsed, error |-> NoError]

Throw(e) ==
    [kind |-> "throw", stdout |-> <<>>, stderr |-> <<>>, usedCLI |-> Undefined,
     fallbackUsed |-> Undefined, error |-> e]

NoResponse ==
    [status |-> 0, usedCLI |-> Undefined, fallbackUsed |-> Undefined,
     data |-> parseOutput(<<>>, "text"), message |-> <<>>]

\* executeAICLI up to its first await: the constants and the primary's spawn
CallExecuteAICLI(opts, preferred) ==
    LET cliToUse == CliToUse(opts, preferred)
        primary  == PrimaryCLI(cliToUse)
    IN /\ options' = opts
       /\ callOptions' = opts
       /\ preferredCLI' = preferred
       /\ locals' = [cliToUse |-> cliToUse,
                     enableFallback |-> EnableFallback(opts),
                     primaryCLI |-> primary,
                     fallbackCLI |-> FallbackCLI(primary)]
       /\ \E started \in BOOLEAN :
            proc' = [i \in 1..2 |->
                        IF i = 1 THEN NewProc(primary, PrimaryOptions(opts), started)
                                 ELSE NoProc]
       /\ spawned' = Append(spawned, CommandOf(primary))
       /\ pc' = "awaitPrimary"
       /\ UNCHANGED <<result, response>>

\* mutant of PrimarySucceeded: the result is tagged as a fallback result
PrimarySucceededTaggedFallback ==
    /\ pc = "awaitPrimary"
    /\ proc[1].promise.state = "fulfilled"
    /\ result' = Return(proc[1].promise, locals.primaryCLI, "true")
    /\ pc' = "settled"
    /\ UNCHANGED <<avars, batch, svars, env, req, options, callOptions, preferredCLI, locals, proc,
                   spawned, response>>

\* the primary's promise fulfilled: return { ...result, usedCLI: primaryCLI }
PrimarySucceeded ==
    /\ pc = "awaitPrimary"
    /\ proc[1].promise.state = "fulfilled"
    /\ result' = Return(proc[1].promise, locals.primaryCLI, Undefined)
    /\ pc' = "settled"
    /\ UNCHANGED <<avars, batch, svars, env, req, options, callOptions, preferredCLI, locals, proc,
                   spawned, response>>

\* a fallback that is spawned without awaiting the primary's outcome
PrimaryFailedFallbackUnawaited ==
    /\ pc = "awaitPrimary"
    /\ proc[1].promise.state \in {"pending", "rejected"}
    /\ locals.enableFallback
    /\ \E started \in BOOLEAN :
         proc' = [proc EXCEPT ![2] =
                     NewProc(locals.fallbackCLI, FallbackOptions(options), started)]
    /\ spawned' = Append(spawned, CommandOf(locals.fallbackCLI))
    /\ pc' = "awaitFallback"
    /\ UNCHANGED <<avars, batch, svars, env, req, options, callOptions, preferredCLI, locals,
                   result, response>>

\* catch (primaryError), fallback enabled: the fallback's spawn
PrimaryFailedFallback ==
    /\ pc = "awaitPrimary"
    /\ proc[1].promise.state = "rejected"
    /\ locals.enableFallback
    /\ \E started \in BOOLEAN :
         proc' = [proc EXCEPT ![2] =
                     NewProc(locals.fallbackCLI, FallbackOptions(options), started)]
    /\ spawned' = Append(spawned, CommandOf(locals.fallbackCLI))
    /\ pc' = "awaitFallback"
    /\ UNCHANGED <<avars, batch, svars, env, req, options, callOptions, preferredCLI, locals,
                   result, response>>

\* catch (primaryError), no fallback: throw primaryError
PrimaryFailedNoFallback ==
    /\ pc = "awaitPrimary"
    /\ proc[1].promise.state = "rejected"
    /\ ~locals.enableFallback
    /\ result' = Throw(proc[1].promise.reason)
    /\ pc' = "settled"
    /\ UNCHANGED <<avars, batch, svars, env, req, options, callOptions, preferredCLI, locals, proc,
                   spawned, response>>

\* mutant of FallbackSucceeded: the result is tagged like a primary result
FallbackSucceededTaggedPrimary ==
    /\ pc = "awaitFallback"
    /\ proc[2].promise.state = "fulfilled"
    /\ result' = Return(proc[2].promise, locals.primaryCLI, Undefined)
    /\ pc' = "settled"
    /\ UNCHANGED <<avars, batch, svars, env, req, options, callOptions, preferredCLI, locals, proc,
                   spawned, response>>

\* the fallback's promise fulfilled
FallbackSucceeded ==
    /\ pc = "awaitFallback"
    /\ proc[2].promise.state = "fulfilled"
    /\ result' = Return(proc[2].promise, locals.fallbackCLI, "true")
    /\ pc' = "settled"
    /\ UNCHANGED <<avars, batch, svars, env, req, options, callOptions, preferredCLI, locals, proc,
                   spawned, response>>

\* mutant of FallbackFailed: a failed fallback is followed by one more attempt
FallbackFailedRetry ==
    /\ pc = "awaitFallback"
    /\ proc[2].promise.state = "rejected"
    /\ \E started \in BOOLEAN :
         proc' = [proc EXCEPT ![2] =
                     NewProc(locals.primaryCLI, FallbackOptions(options), started)]
    /\ spawned' = Append(spawned, CommandOf(locals.primaryCLI))
    /\ UNCHANGED <<avars, batch, svars, env, req, pc, options, callOptions, preferredCLI, locals,
                   result, response>>

\* catch (fallbackError): throw new Error("Both CLIs failed. ...")
FallbackFailed ==
    /\ pc = "awaitFallback"
    /\ proc[2].promise.state = "rejected"
    /\ result' = Throw(NewError("aggregate", 0, AggregateMessage(
                      locals.primaryCLI, proc[1].promise.reason.message,
                      locals.fallbackCLI, proc[2].promise.reason.message)))
    /\ pc' = "settled"
    /\ UNCHANGED <<avars, batch, svars, env, req, options, callOptions, preferredCLI, locals, proc,
                   spawned, response>>

\* ---------------------------------------------------------------------
\* Handlers (server.js 503-544, 549-578, 758-790)
\* ---------------------------------------------------------------------

\* res.status(400).json({ errors })
Rejected400(errors) ==
    /\ response' = [NoResponse EXCEPT !.status = 400, !.message = errors]
    /\ pc' = "done"
    /\ UNCHANGED <<options, callOptions, preferredCLI, locals, proc, spawned,
                   result>>

\* res.status(500).json({ ..., message: error.message })
Failed500(e) == [NoResponse EXCEPT !.status = 500, !.message = e.message]

\* the object POST /api/ask builds from the body
AskOptions(body) ==
    [EmptyBody EXCEPT !.prompt = body.prompt,
                      !.outputFormat = IF body.outputFormat = Undefined
                                       THEN "json" ELSE body.outputFormat,
                      !.model = body.model,
                      !.systemPrompt = body.systemPrompt,
                      !.cli = body.cli]

\* POST /api/ask, up to the await
HandleAsk ==
    /\ pc = "idle"
    /\ req.endpoint = "ask"
    /\ LET errors == validateRequest(req.body)
       IN IF Len(errors) > 0
          THEN Rejected400(errors)
          ELSE CallExecuteAICLI(AskOptions(req.body), Undefined)
    /\ UNCHANGED <<avars, batch, svars, env, req>>

\* POST /api/ask, after the await
RespondAsk ==
    /\ pc = "settled"
    /\ req.endpoint = "ask"
    /\ response' =
         IF result.kind = "return"
         THEN LET parsed == parseOutput(result.stdout, options.outputFormat)
              IN [status |-> 200,
                  usedCLI |-> IF parsed.type = "object"
                              THEN result.usedCLI ELSE Undefined,
                  fallbackUsed |-> IF parsed.type = "object"
                                   THEN JsOr(result.fallbackUsed, "false")
                                   ELSE Undefined,
                  data |-> parsed, message |-> <<>>]
         ELSE Failed500(result.error)
    /\ pc' = "done"
    /\ UNCHANGED <<avars, batch, svars, env, req, options, callOptions, preferredCLI, locals, proc,
                   spawned, result>>

\* POST /api/process, up to the await: the body itself is the options object
HandleProcess ==
    /\ pc = "idle"
    /\ req.endpoint = "process"
    /\ LET errors == validateRequest(req.body)
       IN IF Len(errors) > 0
          THEN Rejected400(errors)
          ELSE CallExecuteAICLI(req.body, Undefined)
    /\ UNCHANGED <<avars, batch, svars, env, req>>

\* POST /api/process, after the await
RespondProcess ==
    /\ pc = "settled"
    /\ req.endpoint = "process"
    /\ response' =
         IF result.kind = "return"
         THEN [status |-> 200,
               usedCLI |-> result.usedCLI,
               fallbackUsed |-> JsOr(result.fallbackUsed, "false"),
               data |-> parseOutput(result.stdout, JsOr(req.body.outputFormat, "json")),
               message |-> <<>>]
         ELSE Failed500(result.error)
    /\ pc' = "done"
    /\ UNCHANGED <<avars, batch, svars, env, req, options, callOptions, preferredCLI, locals, proc,
                   spawned, result>>

\* the options object GET /api/test builds
TestOptions ==
    [EmptyBody EXCEPT !.prompt = "Say Hello", !.outputFormat = "text",
                      !.disableFallback = "true"]

\* GET /api/test, up to the await
HandleTest ==
    /\ pc = "idle"
    /\ req.endpoint = "test"
    /\ CallExecuteAICLI(TestOptions, JsOr(req.query.cli, DEFAULT_CLI))
    /\ UNCHANGED <<avars, batch, svars, env, req>>

\* GET /api/test, after the await (the chunks used here hold no white space,
\* so trim() returns them as they are)
RespondTest ==
    /\ pc = "settled"
    /\ req.endpoint = "test"
    /\ response' =
         IF result.kind = "return"
         THEN [status |-> 200, usedCLI |-> result.usedCLI, fallbackUsed |-> Undefined,
               data |-> [type |-> "string", value |-> result.stdout, raw |-> FALSE],
               message |-> <<>>]
         ELSE Failed500(result.error)
    /\ pc' = "done"
    /\ UNCHANGED <<avars, batch, svars, env, req, options, callOptions, preferredCLI, locals, proc,
                   spawned, result>>

\* ---------------------------------------------------------------------
\* POST /api/stream (server.js 583-685)
\* ---------------------------------------------------------------------

\* the response before anything is written to it; ends counts the calls
\* of res.end()
NewResponseStream == [writes |-> <<>>, ended |-> FALSE, ends |-> 0]

\* res.write(data) called by the handlers of process i: every call is
\* logged; a call made after res.end() delivers nothing
ResWrite(r, i, kind, data) ==
    [r EXCEPT !.writes = Append(@, [from |-> i, kind |-> kind, data |-> data,
                                    accepted |-> ~r.ended,
                                    connected |-> connected])]

\* res.end()
ResEnd(r) == [r EXCEPT !.ended = TRUE, !.ends = @ + 1]

\* JSON.stringify({ error: `Process exited with code ${code}` }) + "\n"
ExitRecord(code) == <<"{\"error\":\"", "Process exited with code ", code, "\"}", "\n">>

\* JSON.stringify({ error: err.message }) + "\n"
ErrorRecord(message) == <<"{\"error\":\"">> \o message \o <<"\"}", "\n">>

\* one run of the handler after validation: cliToUse, the command chosen
\* for it, and the child object spawn() returns
NewStreamProc(body, started) ==
    LET cliToUse == JsOr(body.cli, DEFAULT_CLI)
    IN [cliToUse |-> cliToUse,
        command |-> IF cliToUse = "gemini" THEN "gemini" ELSE "claude",
        os |-> IF started THEN "running" ELSE "spawnfail",
        out |-> <<>>, logged |-> 0, sigterm |-> FALSE, code |-> Undefined]

\* POST /api/stream: validation, then spawn and the registration of the
\* handlers
HandleStream ==
    /\ pc = "idle"
    /\ req.endpoint = "stream"
    /\ LET errors == validateRequest(req.body)
       IN IF Len(errors) > 0
          THEN /\ Rejected400(errors)
               /\ UNCHANGED svars
          ELSE /\ \E started \in BOOLEAN :
                    cliProcess' = <<NewStreamProc(req.body, started)>>
               /\ pc' = "streaming"
               /\ UNCHANGED <<options, callOptions, preferredCLI, locals, proc,
                              spawned, result, response, res, connected>>
    /\ UNCHANGED <<avars, batch, env, req>>

\* stdout.on("data"): res.write(data)
StreamStdout(i) ==
    /\ cliProcess[i].os = "running"
    /\ Len(cliProcess[i].out) + cliProcess[i].logged < MaxStreamChunks
    /\ \E c \in StreamChunks :
         /\ cliProcess' = [cliProcess EXCEPT ![i].out = Append(@, c)]
         /\ res' = ResWrite(res, i, "chunk", <<c>>)
    /\ UNCHANGED <<avars, batch, env, req, pc, options, callOptions, preferredCLI, locals, proc,
                   spawned, result, response, connected>>

\* a stderr handler that terminates the process
StreamStderrKills(i) ==
    /\ cliProcess[i].os = "running"
    /\ Len(cliProcess[i].out) + cliProcess[i].logged < MaxStreamChunks
    /\ cliProcess' = [cliProcess EXCEPT ![i].logged = @ + 1, ![i].sigterm = TRUE]
    /\ UNCHANGED <<avars, batch, env, req, pc, options, callOptions, preferredCLI, locals, proc,
                   spawned, result, response, res, connected>>

\* stderr.on("data"): console.error only
StreamStderr(i) ==
    /\ cliProcess[i].os = "running"
    /\ Len(cliProcess[i].out) + cliProcess[i].logged < MaxStreamChunks
    /\ cliProcess' = [cliProcess EXCEPT ![i].logged = @ + 1]
    /\ UNCHANGED <<avars, batch, env, req, pc, options, callOptions, preferredCLI, locals, proc,
                   spawned, result, response, res, connected>>

\* on("close"): after the process ended and its stdio closed, or after the
\* 'error' event of a failed spawn (then with a negative code)
StreamClose(i) ==
    /\ cliProcess[i].os \in {"running", "errored"}
    /\ \E code \in (IF cliProcess[i].os = "errored" THEN {SpawnErrCode} ELSE ExitCodes) :
         /\ cliProcess' = [cliProcess EXCEPT ![i].os = "closed", ![i].code = code]
         /\ res' = ResEnd(IF code # "0"
                          THEN ResWrite(res, i, "record", ExitRecord(code))
                          ELSE res)
    /\ UNCHANGED <<avars, batch, env, req, pc, options, callOptions, preferredCLI, locals, proc,
                   spawned, result, response, connected>>

\* a restart that switches the backend and leaves the request eligible
RestartBodyKeepsFallback(body, fallbackCLI) == [body EXCEPT !.cli = fallbackCLI]

\* req.body.cli = fallbackCLI; req.body.disableFallback = true
RestartBody(body, fallbackCLI) ==
    [body EXCEPT !.cli = fallbackCLI, !.disableFallback = "true"]

\* an error handler that reports the failure and leaves the stream open
ErrorNoFallbackNoEnd(r, i, message) == ResWrite(r, i, "record", ErrorRecord(message))

\* the error handler without fallback: res.write(...error: err.message...); res.end()
ErrorNoFallback(r, i, message) ==
    ResEnd(ResWrite(r, i, "record", ErrorRecord(message)))

\* on("error") of a failed spawn, emitted on the tick after spawn(), before
\* any other event of the request. With fallback, app.handle(req, res) runs
\* the route again on the changed body: the middleware of the second pass
\* continues synchronously or in microtasks (the body is already parsed),
\* so the second spawn() happens before any I/O event is handled.
StreamError(i) ==
    /\ cliProcess[i].os = "spawnfail"
    /\ IF ENABLE_FALLBACK /\ ~Truthy(req.body.disableFallback)
       THEN LET fallbackCLI == IF cliProcess[i].cliToUse = "claude"
                               THEN "gemini" ELSE "claude"
                body == RestartBody(req.body, fallbackCLI)
            IN /\ req' = [req EXCEPT !.body = body]
               /\ \E started \in BOOLEAN :
                    cliProcess' = Append([cliProcess EXCEPT ![i].os = "errored"],
                                         NewStreamProc(body, started))
               /\ UNCHANGED res
       ELSE /\ cliProcess' = [cliProcess EXCEPT ![i].os = "errored"]
            /\ res' = ErrorNoFallback(res, i, OsErrorMessage(cliProcess[i].command))
            /\ UNCHANGED req
    /\ UNCHANGED <<avars, batch, env, pc, options, callOptions, preferredCLI, locals, proc,
                   spawned, result, response, connected>>

\* req.on("close"): every run of the handler that has spawned registered a
\* listener that calls kill("SIGTERM") on its process; the signal reaches a
\* process that is running
ClientDisconnect ==
    /\ pc = "streaming"
    /\ connected
    /\ \A i \in DOMAIN cliProcess : cliProcess[i].os # "spawnfail"
    /\ connected' = FALSE
    /\ cliProcess' = [i \in DOMAIN cliProcess |->
                        [cliProcess[i] EXCEPT !.sigterm = @ \/ cliProcess[i].os = "running"]]
    /\ UNCHANGED <<avars, batch, env, req, pc, options, callOptions, preferredCLI, locals, proc,
                   spawned, result, response, res>>

\* ---------------------------------------------------------------------
\* POST /api/batch (server.js 690-753)
\* ---------------------------------------------------------------------

\* before the loop: the index, the two lists, the calls of executeAICLI made
\* so far (by index), and the number of processes of earlier items that
\* have not exited yet
NoBatch == [i |-> 0, results |-> <<>>, errors |-> <<>>, calls |-> <<>>, running |-> 0]

\* a check that lets every list through
BatchTooLongNever(prompts) == FALSE

BatchTooLong(prompts) == Len(prompts) > MaxBatchPrompts

\* the options of item i (0-based): { ...commonOptions, prompt, model, systemPrompt, cli }
ItemOptions(body, i) ==
    LET item == body.prompts[i + 1]
    IN [body.common EXCEPT !.prompt = item.prompt,
                           !.model = JsOr(item.model, body.common.model),
                           !.systemPrompt = JsOr(item.systemPrompt, body.common.systemPrompt),
                           !.cli = JsOr(item.cli, body.common.cli)]

\* results.push({ index, success: true, data, usedCLI, fallbackUsed })
ResultEntry(i, r, outputFormat) ==
    [index |-> i, success |-> TRUE,
     data |-> parseOutput(r.stdout, JsOr(outputFormat, "json")),
     usedCLI |-> r.usedCLI, fallbackUsed |-> JsOr(r.fallbackUsed, "false")]

\* errors.push({ index, success: false, error: error.message })
ErrorEntry(i, r) == [index |-> i, success |-> FALSE, error |-> r.error.message]

\* a loop body that records successes only
BatchPushDropsErrors(b, r, outputFormat) ==
    IF r.kind = "return"
    THEN [b EXCEPT !.results = Append(@, ResultEntry(b.i, r, outputFormat))]
    ELSE b

\* the end of the loop body for item b.i: the try pushes the result, the
\* catch pushes the error
BatchPush(b, r, outputFormat) ==
    IF r.kind = "return"
    THEN [b EXCEPT !.results = Append(@, ResultEntry(b.i, r, outputFormat))]
    ELSE [b EXCEPT !.errors = Append(@, ErrorEntry(b.i, r))]

\* a loop that ends at the first failing item
NextIndexStopsOnFailure(i, n, r) == IF r.kind = "throw" THEN n ELSE i + 1

\* i++ (n and the outcome of item i play no part)
NextIndex(i, n, r) == i + 1

\* the processes of the item just ended that have not exited: an item ends
\* when its promise settles, which a timeout does while the process runs
StillRunning == Cardinality({k \in 1..2 : proc[k].os = "running"})

\* res.status(400).json({ error })
BatchRejected400(message) ==
    /\ response' = [NoResponse EXCEPT !.status = 400, !.message = <<message>>]
    /\ pc' = "done"
    /\ UNCHANGED <<options, callOptions, preferredCLI, locals, proc, spawned,
                   result, batch>>

\* the call of executeAICLI for item i
BatchCall(b, i) ==
    /\ batch' = [b EXCEPT !.i = i, !.calls = Append(@, i)]
    /\ CallExecuteAICLI(ItemOptions(req.body, i), Undefined)

\* res.json({ success, results, errors, summary }); an errors list that is
\* empty is sent as undefined, written <<>> here
BatchResponse(b, n) ==
    [status |-> 200, success |-> Len(b.errors) = 0, results |-> b.results,
     errors |-> b.errors,
     summary |-> [total |-> n, successful |-> Len(b.results),
                  failed |-> Len(b.errors)]]

\* POST /api/batch up to the first await
HandleBatch ==
    /\ pc = "idle"
    /\ req.endpoint = "batch"
    /\ IF ~req.body.isArray \/ Len(req.body.prompts) = 0
       THEN BatchRejected400("prompts array is required")
       ELSE IF BatchTooLong(req.body.prompts)
            THEN BatchRejected400("Maximum 10 prompts per batch")
            ELSE BatchCall(batch, 0)
    /\ UNCHANGED <<avars, svars, env, req>>

\* after the await of item i, with another item left: push, i++, next call
BatchNextItem ==
    /\ pc = "settled"
    /\ req.endpoint = "batch"
    /\ LET n == Len(req.body.prompts)
           b == BatchPush(batch, result, req.body.common.outputFormat)
           i == NextIndex(batch.i, n, result)
       IN /\ i < n
          /\ BatchCall([b EXCEPT !.running = @ + StillRunning], i)
    /\ UNCHANGED <<avars, svars, env, req>>

\* after the await of the last item: push, i++, the response
BatchRespond ==
    /\ pc = "settled"
    /\ req.endpoint = "batch"
    /\ LET n == Len(req.body.prompts)
           b == BatchPush(batch, result, req.body.common.outputFormat)
           i == NextIndex(batch.i, n, result)
       IN /\ i >= n
          /\ batch' = [b EXCEPT !.i = i]
          /\ response' = BatchResponse(b, n)
    /\ pc' = "done"
    /\ UNCHANGED <<avars, svars, env, req, options, callOptions, preferredCLI, locals,
                   proc, spawned, result>>

\* a process of an earlier item exits: its close handler returns on killed
EarlierProcessExit ==
    /\ batch.running > 0
    /\ batch' = [batch EXCEPT !.running = @ - 1]
    /\ UNCHANGED <<avars, svars, env, req, pc, options, callOptions, preferredCLI,
                   locals, proc, spawned, result, response>>

\* ---------------------------------------------------------------------
\* Specification
\* ---------------------------------------------------------------------

Init ==
    /\ env \in Environments
    /\ req \in Requests
    /\ pc = "idle"
    /\ options = EmptyBody
    /\ callOptions = EmptyBody
    /\ preferredCLI = Undefined
    /\ locals = [cliToUse |-> Undefined, enableFallback |-> FALSE,
                 primaryCLI |-> Undefined, fallbackCLI |-> Undefined]
    /\ proc = [i \in 1..2 |-> NoProc]
    /\ spawned = <<>>
    /\ result = NoResult
    /\ response = NoResponse
    /\ cliProcess = <<>>
    /\ res = NewResponseStream
    /\ connected = TRUE
    /\ batch = NoBatch
    /\ argOptions = NoArgOptions
    /\ argv = NoArgv

Next ==
    \/ HandleAsk
    \/ HandleProcess
    \/ HandleTest
    \/ \E i \in 1..2 : StdoutData(i)
    \/ \E i \in 1..2 : StderrData(i)
    \/ \E i \in 1..2 : TimerFire(i)
    \/ \E i \in 1..2 : ErrorEvent(i)
    \/ \E i \in 1..2 : CloseEvent(i)
    \/ PrimarySucceeded
    \/ PrimaryFailedFallback
    \/ PrimaryFailedNoFallback
    \/ FallbackSucceeded
    \/ FallbackFailed
    \/ RespondAsk
    \/ RespondProcess
    \/ RespondTest

Spec == Init /\ [][Next]_vars

\* One POST /api/process request of a deployment with no environment set,
\* with the timers of the event loop eventually running their callbacks.
InitProcess ==
    /\ Init
    /\ env = [ENABLE_FALLBACK |-> Undefined, DEFAULT_CLI |-> Undefined]
    /\ req.endpoint = "process"

NextProcess ==
    \/ HandleProcess
    \/ \E i \in 1..2 : StdoutData(i)
    \/ \E i \in 1..2 : StderrData(i)
    \/ \E i \in 1..2 : TimerFire(i)
    \/ \E i \in 1..2 : ErrorEvent(i)
    \/ \E i \in 1..2 : CloseEvent(i)
    \/ PrimarySucceeded
    \/ PrimaryFailedFallback
    \/ PrimaryFailedNoFallback
    \/ FallbackSucceeded
    \/ FallbackFailed
    \/ RespondProcess

\* One POST /api/stream request
InitStream ==
    /\ env \in Environments
    /\ req \in StreamRequests
    /\ pc = "idle"
    /\ options = EmptyBody
    /\ callOptions = EmptyBody
    /\ preferredCLI = Undefined
    /\ locals = [cliToUse |-> Undefined, enableFallback |-> FALSE,
                 primaryCLI |-> Undefined, fallbackCLI |-> Undefined]
    /\ proc = [i \in 1..2 |-> NoProc]
    /\ spawned = <<>>
    /\ result = NoResult
    /\ response = NoResponse
    /\ cliProcess = <<>>
    /\ res = NewResponseStream
    /\ connected = TRUE
    /\ batch = NoBatch
    /\ argOptions = NoArgOptions
    /\ argv = NoArgv

NextStream ==
    \/ HandleStream
    \/ \E i \in DOMAIN cliProcess : StreamStdout(i)
    \/ \E i \in DOMAIN cliProcess : StreamStderr(i)
    \/ \E i \in DOMAIN cliProcess : StreamClose(i)
    \/ \E i \in DOMAIN cliProcess : StreamError(i)
    \/ ClientDisconnect

SpecStream == InitStream /\ [][NextStream]_vars

\* Argument construction applied to one options object
InitArgs ==
    /\ env \in {e \in Environments : e.ENABLE_FALLBACK = Undefined}
    /\ req = [endpoint |-> "none", query |-> [cli |-> Undefined], body |-> EmptyBody]
    /\ pc = "idle"
    /\ options = EmptyBody
    /\ callOptions = EmptyBody
    /\ preferredCLI = Undefined
    /\ locals = [cliToUse |-> Undefined, enableFallback |-> FALSE,
                 primaryCLI |-> Undefined, fallbackCLI |-> Undefined]
    /\ proc = [i \in 1..2 |-> NoProc]
    /\ spawned = <<>>
    /\ result = NoResult
    /\ response = NoResponse
    /\ cliProcess = <<>>
    /\ res = NewResponseStream
    /\ connected = TRUE
    /\ batch = NoBatch
    /\ argOptions \in ArgOptionsValues
    /\ argv = NoArgv

NextArgs ==
    \/ BuildGeminiArgs
    \/ BuildClaudeArgs
    \/ BuildStreamArgs

SpecArgs == InitArgs /\ [][NextArgs]_vars

\* One POST /api/batch request
InitBatch ==
    /\ env = [ENABLE_FALLBACK |-> Undefined, DEFAULT_CLI |-> Undefined]
    /\ req \in BatchRequests
    /\ pc = "idle"
    /\ options = EmptyBody
    /\ callOptions = EmptyBody
    /\ preferredCLI = Undefined
    /\ locals = [cliToUse |-> Undefined, enableFallback |-> FALSE,
                 primaryCLI |-> Undefined, fallbackCLI |-> Undefined]
    /\ proc = [i \in 1..2 |-> NoProc]
    /\ spawned = <<>>
    /\ result = NoResult
    /\ response = NoResponse
    /\ cliProcess = <<>>
    /\ res = NewResponseStream
    /\ connected = TRUE
    /\ batch = NoBatch
    /\ argOptions = NoArgOptions
    /\ argv = NoArgv

NextBatch ==
    \/ HandleBatch
    \/ \E i \in 1..2 : StdoutData(i)
    \/ \E i \in 1..2 : StderrData(i)
    \/ \E i \in 1..2 : TimerFire(i)
    \/ \E i \in 1..2 : ErrorEvent(i)
    \/ \E i \in 1..2 : CloseEvent(i)
    \/ PrimarySucceeded
    \/ PrimaryFailedFallback
    \/ PrimaryFailedNoFallback
    \/ FallbackSucceeded
    \/ FallbackFailed
    \/ BatchNextItem
    \/ BatchRespond
    \/ EarlierProcessExit

SpecBatch == InitBatch /\ [][NextBatch]_vars

\* the executor calls of one POST /api/process request, every ordering of
\* their events
SpecProcess == InitProcess /\ [][NextProcess]_vars

SpecTimeout ==
    /\ InitProcess
    /\ [][NextProcess]_vars
    /\ \A i \in 1..2 : WF_vars(TimerFire(i))

\* ---------------------------------------------------------------------
\* Properties
\* ---------------------------------------------------------------------

Backends == {"claude", "gemini"}

\* t occurs in s as a run of consecutive tokens
Contains(s, t) ==
    \E k \in 0..(Len(s) - Len(t)) : SubSeq(s, k + 1, k + Len(t)) = t

\* executeAICLI was called / has returned or thrown
Called == proc[1].os # "none"
CallEnded == result.kind # "none"

PrimaryFailed == proc[1].promise.state = "rejected"
PrimaryOk == proc[1].promise.state = "fulfilled"
FallbackAttempted == proc[2].os # "none"
FallbackOk == proc[2].promise.state = "fulfilled"
FallbackRejected == proc[2].promise.state = "rejected"

\* the place of `new Error` that made the primary's failure
PrimaryFailureKind == proc[1].promise.reason.id[1]

\* the backend selector of the request
RequestedCLI == IF req.endpoint = "test" THEN req.query.cli ELSE req.body.cli

\* the deployment switches fallback off: ENABLE_FALLBACK is set, and not to "true"
DeploymentDisablesFallback == env.ENABLE_FALLBACK \notin {Undefined, "true"}

\* the request body, or the handler calling executeAICLI, asks for no fallback
CallerDisablesFallback ==
    Truthy(req.body.disableFallback) \/ Truthy(callOptions.disableFallback)

\* C1: with fallback enabled for the call, whatever the outcomes of the two
\* attempts, at most two processes are spawned; a failed primary is followed
\* by exactly one attempt, on the fallback backend, and a failed fallback by
\* none.
C1_AtMostOneFallbackAttempt ==
    locals.enableFallback =>
        /\ Len(spawned) <= 2
        /\ (CallEnded /\ PrimaryFailed =>
                Len(spawned) = 2 /\ spawned[2] = CommandOf(locals.fallbackCLI))
        /\ (FallbackRejected => Len(spawned) = 2)

\* C1 witness: both attempts failed, the call ended, the fallback's process
\* has closed, and two processes were spawned
C1_Witness ==
    /\ pc = "done"
    /\ locals.enableFallback
    /\ PrimaryFailed /\ FallbackRejected
    /\ proc[2].os = "closed"
    /\ Len(spawned) = 2

\* C2: a request whose fallback is disabled, by the caller or by the
\* deployment, spawns exactly one process, whatever its outcome.
C2_ExactlyOneSpawnWhenDisabled ==
    CallEnded /\ (DeploymentDisablesFallback \/ CallerDisablesFallback) =>
        Len(spawned) = 1

\* C3: the primary failed (spawn failure, timeout or non-zero exit), fallback
\* is enabled and the fallback attempt succeeded: executeAICLI returns the
\* fallback's output, usedCLI is the fallback backend, fallbackUsed is true.
C3_FallbackResult ==
    CallEnded /\ PrimaryFailed /\ locals.enableFallback /\ FallbackOk =>
        /\ PrimaryFailureKind \in {"spawn", "timeout", "exit"}
        /\ result.kind = "return"
        /\ result.stdout = proc[2].promise.stdout
        /\ result.stderr = proc[2].promise.stderr
        /\ result.usedCLI = locals.fallbackCLI
        /\ result.usedCLI # locals.primaryCLI
        /\ result.fallbackUsed = "true"
        /\ (pc = "done" /\ req.endpoint = "process" =>
                response.usedCLI = locals.fallbackCLI /\ response.fallbackUsed = "true")

\* C3 witness: the primary timed out, the fallback wrote a chunk and
\* succeeded, and the response was sent
C3_Witness ==
    /\ pc = "done"
    /\ PrimaryFailed /\ PrimaryFailureKind = "timeout"
    /\ FallbackOk
    /\ result.stdout # <<>>
    /\ result.fallbackUsed = "true"

\* C4: the primary succeeded: executeAICLI returns the primary's output with
\* usedCLI the primary backend, fallbackUsed is reported as false, and the
\* fallback backend is never spawned.
C4_PrimaryResult ==
    PrimaryOk =>
        /\ ~FallbackAttempted
        /\ Len(spawned) = 1 /\ spawned[1] = CommandOf(locals.primaryCLI)
        /\ (CallEnded =>
              /\ result.kind = "return"
              /\ result.stdout = proc[1].promise.stdout
              /\ result.stderr = proc[1].promise.stderr
              /\ result.usedCLI = locals.primaryCLI
              /\ JsOr(result.fallbackUsed, "false") = "false")
        /\ (pc = "done" => response.status = 200 /\ response.fallbackUsed # "true")
        /\ (pc = "done" /\ req.endpoint = "process" =>
                response.usedCLI = locals.primaryCLI /\ response.fallbackUsed = "false")

\* C4 witness: the primary wrote a chunk and succeeded, /api/ask answered
\* with fallbackUsed false
C4_Witness ==
    /\ pc = "done"
    /\ req.endpoint = "ask"
    /\ PrimaryOk
    /\ result.stdout # <<>>
    /\ response.fallbackUsed = "false"
    /\ response.usedCLI = locals.primaryCLI

\* C5: both attempts failed: executeAICLI throws one new error whose message
\* names each backend, followed by the message of that backend's failure.
C5_AggregateFailure ==
    CallEnded /\ PrimaryFailed /\ FallbackRejected =>
        LET msg == result.error.message
            pm  == proc[1].promise.reason.message
            fm  == proc[2].promise.reason.message
        IN /\ result.kind = "throw"
           /\ result.error.id \notin {proc[1].promise.reason.id, proc[2].promise.reason.id}
           /\ Len(pm) > 0 /\ Len(fm) > 0
           /\ Contains(msg, <<locals.primaryCLI, "): ">> \o pm)
           /\ Contains(msg, <<locals.fallbackCLI, "): ">> \o fm)
           /\ (pc = "done" => response.status = 500 /\ response.message = msg)

\* C5 witness: the primary exited non-zero after writing to stderr, the
\* fallback could not be spawned, and the call has thrown
C5_Witness ==
    /\ CallEnded
    /\ PrimaryFailed /\ PrimaryFailureKind = "exit" /\ proc[1].stderr # <<>>
    /\ FallbackRejected /\ proc[2].promise.reason.id[1] = "spawn"
    /\ result.kind = "throw"

\* C6: the primary failed and fallback is not eligible (disabled by the
\* deployment or by the caller): executeAICLI throws the primary's error
\* itself.
C6_PrimaryFailureUnchanged ==
    CallEnded /\ PrimaryFailed
        /\ (DeploymentDisablesFallback \/ CallerDisablesFallback) =>
        result = Throw(proc[1].promise.reason)

\* C7: with ENABLE_FALLBACK set to a value other than "true", no request
\* makes a fallback attempt.
C7_NoFallbackWhenDeploymentDisables ==
    DeploymentDisablesFallback => ~FallbackAttempted

\* C8: a request whose body sets disableFallback: true never makes a
\* fallback attempt.
C8_NoFallbackWhenBodyDisables ==
    Truthy(req.body.disableFallback) => ~FallbackAttempted

\* C9 as claimed: the primary is the requested backend if one is given
\* (a selector that is present and not empty) and the system default
\* otherwise; it is one of the two backends and the fallback is the other one.
C9_PrimaryIsRequestedElseDefault ==
    Called =>
        /\ locals.primaryCLI =
              (IF Truthy(RequestedCLI) THEN RequestedCLI ELSE DEFAULT_CLI)
        /\ locals.primaryCLI \in Backends
        /\ locals.fallbackCLI \in Backends \ {locals.primaryCLI}

\* C9 amended: the primary is the requested backend if that is "claude" or
\* "gemini", the system default if no selector is given and the default is
\* "claude" or "gemini", and "claude" in every other case (an unknown
\* selector, or no selector and an unknown default); the primary is one of
\* the two backends, the fallback is the other one, and these are the
\* commands spawned.
C9_PrimaryIsGeminiOnExactMatchOnly ==
    Called =>
        /\ locals.primaryCLI =
              (IF RequestedCLI \in Backends THEN RequestedCLI
               ELSE IF ~Truthy(RequestedCLI) /\ DEFAULT_CLI \in Backends
                    THEN DEFAULT_CLI
                    ELSE "claude")
        /\ locals.primaryCLI \in Backends
        /\ locals.fallbackCLI \in Backends \ {locals.primaryCLI}
        /\ spawned[1] = locals.primaryCLI
        /\ (Len(spawned) > 1 => spawned[2] = locals.fallbackCLI)

\* C9 witness: an unknown selector with the default set to gemini runs
\* claude first and gemini as the fallback
C9_Witness ==
    /\ RequestedCLI = "gpt"
    /\ env.DEFAULT_CLI = "gemini"
    /\ locals.primaryCLI = "claude"
    /\ FallbackAttempted
    /\ proc[2].cli = "gemini"

\* C10: the fallback attempt is run with the options object of the primary
\* attempt, field for field, and the caller's object is the same after the
\* call as before it.
C10_FallbackRunsWithSameOptions ==
    /\ (FallbackAttempted =>
            proc[2].options = proc[1].options /\ proc[1].options = callOptions)
    /\ (Called => options = callOptions)
    /\ (Called /\ req.endpoint = "process" => req.body = callOptions)

\* C10 witness: a fallback attempt was made and the call has ended
C10_Witness ==
    /\ FallbackAttempted
    /\ CallEnded
    /\ pc = "done"

\* the failures an executor call of attempt i can end with
TimeoutFailure(i) == Rejected(NewError("timeout", i, TimeoutMessage))
SpawnFailure(i) == Rejected(NewError("spawn", i, SpawnFailMessage(proc[i].cli)))
ExitFailure(i) ==
    Rejected(NewError("exit", i, ExitMessage(proc[i].cli, proc[i].code, proc[i].stderr)))

\* attempt i's process was started by the operating system
Started(i) == proc[i].os = "running" \/ proc[i].code \in ExitCodes

\* attempt i's process could not be started, and the error event was handled
SpawnFailedHandled(i) == proc[i].os = "errored" \/ proc[i].code = SpawnErrCode

\* C11: a started process that does not exit by itself is sent SIGTERM when
\* its timer expires and its executor call then has failed with "Request
\* timeout exceeded"; the call of a running process never stays pending
\* forever, and a timed-out call is never a success.
C11_TimeoutKillsAndFails ==
    /\ [](\A i \in 1..2 :
            proc[i].timer = "fired" =>
                /\ proc[i].sigterm
                /\ proc[i].promise.state = "rejected"
                /\ proc[i].promise.reason.message = TimeoutMessage)
    /\ \A i \in 1..2 :
            (proc[i].os = "running") ~> (proc[i].promise.state # "pending")

C11_Witness ==
    \E i \in 1..2 :
        /\ proc[i].os = "running"
        /\ proc[i].timer = "fired"
        /\ proc[i].sigterm
        /\ proc[i].promise = TimeoutFailure(i)

\* C12: once the timer of an attempt has fired, the outcome of its executor
\* call is the timeout failure, whatever event is handled afterwards: a
\* later close event, with any exit code, leaves it unchanged.
C12_TimeoutOutcomeIsFinal ==
    \A i \in 1..2 :
        proc[i].timer = "fired" =>
            /\ proc[i].promise = TimeoutFailure(i)
            /\ (proc[i].os = "closed" => proc[i].code \in ExitCodes)

C12_Witness ==
    \E i \in 1..2 :
        /\ proc[i].timer = "fired"
        /\ proc[i].os = "closed"
        /\ proc[i].code = "0"
        /\ proc[i].promise = TimeoutFailure(i)

\* C13 as stated: when the process cannot be started the call fails with
\* the spawn failure and the timeout timer is not started for that attempt.
C13_SpawnFailureNeverStartsTimer ==
    \A i \in 1..2 :
        /\ SpawnFailedHandled(i) => proc[i].promise = SpawnFailure(i)
        /\ (proc[i].os = "spawnfail" \/ SpawnFailedHandled(i)) => proc[i].timer = "none"

\* C13, amended: when the process cannot be started the call fails with
\* the spawn failure, which carries the OS error text and is neither the
\* timeout nor the non-zero-exit failure; the timer, armed when spawn()
\* returned, is cancelled by the error handler and never fires: no
\* termination signal is sent and the killed flag stays unset.
C13_SpawnFailureCancelsTimer ==
    \A i \in 1..2 :
        /\ proc[i].os = "spawnfail" =>
                /\ proc[i].timer = "armed"
                /\ proc[i].promise = Pending
        /\ SpawnFailedHandled(i) =>
                /\ proc[i].promise = SpawnFailure(i)
                /\ Contains(proc[i].promise.reason.message, OsErrorMessage(proc[i].cli))
                /\ proc[i].promise.reason.message # TimeoutMessage
                /\ ~Contains(proc[i].promise.reason.message, <<" exited with code ">>)
                /\ \A c \in ExitCodes \cup {SpawnErrCode} :
                       proc[i].promise.reason.message
                           # ExitMessage(proc[i].cli, c, proc[i].stderr)
                /\ proc[i].timer = "cleared"
                /\ ~proc[i].killed
                /\ ~proc[i].sigterm

C13_Witness ==
    \E i \in 1..2 :
        /\ proc[i].os = "closed"
        /\ proc[i].code = SpawnErrCode
        /\ proc[i].timer = "cleared"
        /\ proc[i].promise = SpawnFailure(i)

\* C14: the call of a process that started and was not killed by the
\* timeout succeeds, with the captured stdout and stderr, exactly when the
\* process closes with exit code 0; with any other code it fails with the
\* non-zero-exit failure that carries the code and the captured stderr.
C14_CloseDecidesOutcome ==
    \A i \in 1..2 :
        (proc[i].os = "closed" /\ Started(i) /\ ~proc[i].killed) =>
            /\ (proc[i].promise.state = "fulfilled") <=> (proc[i].code = "0")
            /\ proc[i].code = "0" =>
                    proc[i].promise = Fulfilled(proc[i].stdout, proc[i].stderr)
            /\ proc[i].code # "0" =>
                    /\ proc[i].promise = ExitFailure(i)
                    /\ Contains(proc[i].promise.reason.message, <<proc[i].code>>)
                    /\ Contains(proc[i].promise.reason.message, proc[i].stderr)

C14_Witness ==
    /\ proc[1].os = "closed" /\ ~proc[1].killed
    /\ proc[1].code = "1" /\ proc[1].stderr # <<>>
    /\ proc[1].promise = ExitFailure(1)
    /\ proc[2].os = "closed" /\ ~proc[2].killed
    /\ proc[2].code = "0" /\ proc[2].stdout # <<>>
    /\ proc[2].promise.state = "fulfilled"

\* the first event of attempt i that was handled: the timer keeps "fired"
\* only if it fired while armed, that is before any error or close event
FirstEvent(i) ==
    IF proc[i].timer = "fired" THEN "timer"
    ELSE IF SpawnFailedHandled(i) THEN "error"
    ELSE IF proc[i].os = "closed" THEN "close"
    ELSE "none"

\* the outcome the first handled event gives the executor call
OutcomeOfFirstEvent(i) ==
    CASE FirstEvent(i) = "timer" -> TimeoutFailure(i)
      [] FirstEvent(i) = "error" -> SpawnFailure(i)
      [] FirstEvent(i) = "close" ->
            IF proc[i].code = "0" THEN Fulfilled(proc[i].stdout, proc[i].stderr)
                                  ELSE ExitFailure(i)
      [] OTHER -> Pending

\* C37: the outcome of an executor call is the one of the first of its
\* events error, close and timer expiry to be handled (pending while none
\* was handled), hence exactly one of success, non-zero-exit failure,
\* spawn failure and timeout failure; an event handled later leaves the
\* outcome as it is, and what executeAICLI has returned or thrown is never
\* replaced.
C37_FirstEventDecidesOutcome ==
    /\ [](\A i \in 1..2 : proc[i].promise = OutcomeOfFirstEvent(i))
    /\ [][/\ \A i \in 1..2 :
               proc[i].promise.state # "pending" => proc'[i].promise = proc[i].promise
          /\ result.kind # "none" => result' = result]_vars

C37_Witness ==
    /\ proc[1].os = "closed" /\ proc[1].code = SpawnErrCode
    /\ proc[1].promise = SpawnFailure(1)
    /\ proc[2].os = "closed" /\ proc[2].code = "0" /\ proc[2].timer = "fired"
    /\ proc[2].promise = TimeoutFailure(2)
    /\ result.kind = "throw"

\* C38: the fallback is spawned only in a step in which the primary's
\* executor call has already failed: while the primary's call is pending
\* there is no fallback attempt, so the two calls are never pending
\* together.
C38_FallbackAfterPrimaryOutcome ==
    [][(proc[2].os = "none" /\ proc'[2].os # "none") =>
          /\ proc[1].promise.state = "rejected"
          /\ proc'[1] = proc[1]]_vars

C38_Witness ==
    /\ proc[1].os = "running"
    /\ proc[1].promise = TimeoutFailure(1)
    /\ proc[2].os = "running"
    /\ proc[2].promise = Pending

\* C40: once the close or the error event of an attempt has been handled
\* its timer is not armed; the timer fires, and SIGTERM is sent, only in a
\* step in which the process is running with neither event handled, so a
\* call never turns into a timeout failure after a close or spawn error.
C40_TimerCancelledByCloseAndError ==
    [][\A i \in 1..2 :
         /\ proc[i].os \in {"errored", "closed"} =>
               /\ proc[i].timer # "armed"
               /\ proc'[i].timer = proc[i].timer
               /\ proc'[i].sigterm = proc[i].sigterm
               /\ proc'[i].promise = proc[i].promise
         /\ (proc'[i].timer = "fired" /\ proc[i].timer # "fired") =>
               proc[i].os = "running"
         /\ (proc'[i].sigterm /\ ~proc[i].sigterm) => proc[i].os = "running"]_vars

C40_Witness ==
    /\ pc = "done"
    /\ proc[1].os = "closed" /\ proc[1].code = SpawnErrCode
    /\ proc[1].timer = "cleared" /\ ~proc[1].sigterm
    /\ proc[2].os = "closed" /\ proc[2].code = "0"
    /\ proc[2].timer = "cleared" /\ ~proc[2].sigterm
    /\ proc[2].promise.state = "fulfilled"

\* ---------------------------------------------------------------------
\* Properties of the streaming relay
\* ---------------------------------------------------------------------

Accepted(w) == w.accepted

\* what the sink has received: the writes made before res.end()
Sink == SelectSeq(res.writes, Accepted)

\* the data of a sequence of writes
DataOf(ws) == [k \in 1..Len(ws) |-> ws[k].data]

\* one write per chunk, in order
ChunkWrites(out) == [k \in 1..Len(out) |-> <<out[k]>>]

\* streaming process i was started and has closed with the given code
ExitedWith(i, codes) == cliProcess[i].os = "closed" /\ cliProcess[i].code \in codes

\* streaming process i could not be started, and its error event was handled
StreamSpawnFailed(i) ==
    cliProcess[i].os = "errored" \/ ExitedWith(i, {SpawnErrCode})

\* C15: when a streaming process has emitted stdout chunks and exited with
\* code 0, the sink has received exactly those chunks, one write per chunk,
\* in order, with nothing else before the stream was closed; stderr is
\* never written.
C15_ExitZeroRelaysExactlyTheChunks ==
    \A i \in DOMAIN cliProcess :
        ExitedWith(i, {"0"}) =>
            /\ res.ended
            /\ DataOf(Sink) = ChunkWrites(cliProcess[i].out)
            /\ \A k \in 1..Len(Sink) : Sink[k].kind = "chunk" /\ Sink[k].from = i

\* C16: when a streaming process has exited with a code other than 0 after
\* emitting chunks, the sink has received all those chunks followed by
\* exactly one failure record naming the exit code, and the stream is
\* closed.
C16_NonZeroExitAppendsOneRecord ==
    \A i \in DOMAIN cliProcess :
        ExitedWith(i, ExitCodes \ {"0"}) =>
            /\ res.ended
            /\ DataOf(Sink) = ChunkWrites(cliProcess[i].out)
                                \o <<ExitRecord(cliProcess[i].code)>>

\* C17: a streaming request restarts at most once, and the restart runs
\* with fallback disabled: at most two processes are spawned for the
\* request, the second one only after the spawn failure of the first.
C17_AtMostOneRestart ==
    /\ Len(cliProcess) <= 2
    /\ Len(cliProcess) = 2 =>
          /\ StreamSpawnFailed(1)
          /\ Truthy(req.body.disableFallback)
          /\ ~(ENABLE_FALLBACK /\ ~Truthy(req.body.disableFallback))

C17_Witness ==
    /\ Len(cliProcess) = 2
    /\ ExitedWith(1, {SpawnErrCode})
    /\ ExitedWith(2, {SpawnErrCode})

\* C18: the restart is run against the other backend, different from the
\* one whose spawn failed, for every value of the selector.
C18_RestartUsesOtherBackend ==
    Len(cliProcess) = 2 => cliProcess[2].command # cliProcess[1].command

\* C19: when a streaming spawn fails and no further fallback follows (the
\* request is not eligible, or the failed process is the restarted one),
\* the sink has received exactly one failure record and the stream is
\* closed.
C19_SpawnFailureWritesOneRecord ==
    LET n == Len(cliProcess)
    IN (n > 0 /\ StreamSpawnFailed(n)) =>
          /\ res.ended
          /\ Len(Sink) = 1
          /\ Sink[1].kind = "record"
          /\ Sink[1].data \in {ErrorRecord(OsErrorMessage(cliProcess[n].command)),
                               ExitRecord(SpawnErrCode)}

C19_Witness ==
    /\ Len(cliProcess) = 2
    /\ cliProcess[1].os = "closed"
    /\ cliProcess[2].os = "closed"
    /\ cliProcess[2].code = SpawnErrCode
    /\ Len(Sink) = 1
    /\ res.ended

\* C20: once the client has disconnected, every running process has been
\* sent SIGTERM and no write to the sink is attempted any more.
C20_NoWriteAfterDisconnect ==
    /\ ~connected =>
          \A i \in DOMAIN cliProcess :
              cliProcess[i].os = "running" => cliProcess[i].sigterm
    /\ \A k \in 1..Len(res.writes) : res.writes[k].connected

\* the request was restarted after the spawn failure of its first process
Restarted == Len(cliProcess) = 2 /\ StreamSpawnFailed(1)

\* C35: when the first spawn failed, the request was restarted and the
\* restarted process runs, the stream is not closed before that process
\* has closed; when it has emitted chunks and exited with code 0, the sink
\* has received exactly its chunks, in order, and no failure record,
\* whenever the close event of the failed process is handled.
C35_RestartRelaysOnlyTheRestartedProcess ==
    Restarted =>
        /\ cliProcess[2].os = "running" => ~res.ended
        /\ ExitedWith(2, {"0"}) =>
              /\ DataOf(Sink) = ChunkWrites(cliProcess[2].out)
              /\ \A k \in 1..Len(Sink) : Sink[k].kind = "chunk" /\ Sink[k].from = 2

\* C36: res.end() is called at most once for a streaming request, and
\* res.write() is never called after it.
C36_ClosedOnceNoWriteAfter ==
    /\ res.ends <= 1
    /\ \A k \in 1..Len(res.writes) : res.writes[k].accepted

\* a process is sent SIGTERM in this step
Signalled ==
    \E i \in DOMAIN cliProcess' :
        /\ cliProcess'[i].sigterm
        /\ i \in DOMAIN cliProcess => ~cliProcess[i].sigterm

\* the close handler of a process runs in this step
CloseHandled ==
    \E i \in DOMAIN cliProcess :
        cliProcess[i].os # "closed" /\ cliProcess'[i].os = "closed"

\* the error handler of a process runs in this step and does not restart
ErrorHandledNoRestart ==
    /\ Len(cliProcess') = Len(cliProcess)
    /\ \E i \in DOMAIN cliProcess :
          cliProcess[i].os = "spawnfail" /\ cliProcess'[i].os = "errored"

\* C39: in the streaming relay a process is sent SIGTERM only in the step
\* in which the client disconnects, whatever timeout the request carries
\* and however long the process runs; the stream is closed only in a step
\* that handles a close event, or a spawn error without restart.
C39_OnlyDisconnectTerminates ==
    [][/\ Signalled => (connected /\ ~connected')
       /\ (res'.ended /\ ~res.ended) => (CloseHandled \/ ErrorHandledNoRestart)]_vars

C39_Witness ==
    /\ req.body.timeout = "1"
    /\ Len(cliProcess) = 1
    /\ Len(cliProcess[1].out) = MaxStreamChunks
    /\ cliProcess[1].sigterm
    /\ ~connected
    /\ res.ended

\* ---------------------------------------------------------------------
\* Properties of argument construction
\* ---------------------------------------------------------------------

Last(args) == args[Len(args)]

\* flag occurs in args, followed by value
HasFlagValue(args, flag, value) ==
    \E k \in 1..(Len(args) - 1) : args[k] = <<flag>> /\ args[k + 1] = value

HasFlag(args, flag) == \E k \in 1..Len(args) : args[k] = <<flag>>

\* C21: for a request in the stream output mode, the command and argument
\* list POST /api/stream spawns are the ones the adapter of the same
\* backend builds for that request.
C21_StreamArgsAreAdapterArgs ==
    (argv.built = {"gemini", "claude", "stream"}
     /\ argOptions.outputFormat = "stream-json") =>
        argv.stream = IF argv.command = "gemini" THEN argv.gemini ELSE argv.claude

\* C29: with systemPrompt X and prompt Y the last argument of the gemini
\* command is "System: X\n\nUser: Y" and no --system-prompt flag is
\* emitted; the last argument of the claude command is exactly Y and X is
\* the value of a separate --system-prompt flag.
C29_SystemPromptArguments ==
    ({"gemini", "claude"} \subseteq argv.built /\ Truthy(argOptions.systemPrompt)) =>
        /\ Last(argv.gemini)
             = <<"System: ", argOptions.systemPrompt, "\n\nUser: ", argOptions.prompt>>
        /\ ~HasFlag(argv.gemini, "--system-prompt")
        /\ Last(argv.claude) = <<argOptions.prompt>>
        /\ HasFlagValue(argv.claude, "--system-prompt", <<argOptions.systemPrompt>>)

C29_Witness ==
    /\ {"gemini", "claude"} \subseteq argv.built
    /\ argOptions.systemPrompt = "X"
    /\ argOptions.prompt = "Y"
    /\ Last(argv.gemini) = <<"System: ", "X", "\n\nUser: ", "Y">>
    /\ Last(argv.claude) = <<"Y">>

\* C30: for the gemini backend, with an append-system-prompt A and no
\* system prompt, the last argument is "A\n\nY" for prompt Y, in buffered
\* execution (mapToGeminiArgs) as well as in streaming.
C30_AppendSystemPromptRewrite ==
    (~Truthy(argOptions.systemPrompt) /\ Truthy(argOptions.appendSystemPrompt)) =>
        /\ "gemini" \in argv.built =>
              Last(argv.gemini)
                 = <<argOptions.appendSystemPrompt, "\n\n", argOptions.prompt>>
        /\ ("stream" \in argv.built /\ argv.command = "gemini") =>
              Last(argv.stream)
                 = <<argOptions.appendSystemPrompt, "\n\n", argOptions.prompt>>

\* the number of occurrences of flag in args
CountFlag(args, flag) == Cardinality({k \in 1..Len(args) : args[k] = <<flag>>})

\* the arguments tools stands for follow flag, one argument per tool
HasFlagList(args, flag, tools) ==
    \E k \in 1..Len(args) :
        /\ args[k] = <<flag>>
        /\ k + Len(tools) <= Len(args)
        /\ \A j \in 1..Len(tools) : args[k + j] = <<tools[j]>>

SkipSet == Truthy(argOptions.dangerouslySkipPermissions)
ToolsGiven == Len(argOptions.allowedTools) > 0

\* C31: in the gemini argument list, with the skip flag set --yolo is
\* emitted and the tools list is not; with the skip flag not set --yolo is
\* not emitted and --allowed-tools followed by the tools is emitted exactly
\* when the list is present and non-empty.
C31_GeminiSkipExcludesTools ==
    "gemini" \in argv.built =>
        /\ SkipSet =>
              /\ CountFlag(argv.gemini, "--yolo") = 1
              /\ ~HasFlag(argv.gemini, "--allowed-tools")
              /\ \A k \in 1..Len(argOptions.allowedTools) :
                     ~HasFlag(argv.gemini, argOptions.allowedTools[k])
        /\ ~SkipSet =>
              /\ ~HasFlag(argv.gemini, "--yolo")
              /\ HasFlag(argv.gemini, "--allowed-tools") <=> ToolsGiven
              /\ ToolsGiven =>
                    HasFlagList(argv.gemini, "--allowed-tools", argOptions.allowedTools)

C31_Witness ==
    /\ "gemini" \in argv.built
    /\ SkipSet
    /\ ToolsGiven
    /\ HasFlag(argv.gemini, "--yolo")
    /\ ~HasFlag(argv.gemini, "--allowed-tools")

\* C32: in the claude argument list each of --dangerously-skip-permissions,
\* --allowed-tools <list>, --continue, --resume <id> and --session-id <id>
\* is emitted exactly when its own field is set, whatever the other fields
\* are: the skip flag and the tools list appear together, and so do the
\* three session flags.
C32_ClaudeFlagsAreIndependent ==
    "claude" \in argv.built =>
        /\ HasFlag(argv.claude, "--dangerously-skip-permissions") <=> SkipSet
        /\ HasFlag(argv.claude, "--allowed-tools") <=> ToolsGiven
        /\ ToolsGiven =>
              HasFlagValue(argv.claude, "--allowed-tools", Join(argOptions.allowedTools))
        /\ HasFlag(argv.claude, "--continue") <=> Truthy(argOptions.continueSession)
        /\ HasFlag(argv.claude, "--resume") <=> Truthy(argOptions.resumeSession)
        /\ Truthy(argOptions.resumeSession) =>
              HasFlagValue(argv.claude, "--resume", <<argOptions.resumeSession>>)
        /\ HasFlag(argv.claude, "--session-id") <=> Truthy(argOptions.sessionId)
        /\ Truthy(argOptions.sessionId) =>
              HasFlagValue(argv.claude, "--session-id", <<argOptions.sessionId>>)

C32_Witness ==
    /\ "claude" \in argv.built
    /\ SkipSet
    /\ ToolsGiven
    /\ HasFlag(argv.claude, "--dangerously-skip-permissions")
    /\ HasFlag(argv.claude, "--allowed-tools")
    /\ HasFlag(argv.claude, "--continue")
    /\ HasFlag(argv.claude, "--resume")
    /\ HasFlag(argv.claude, "--session-id")

\* C33: in the gemini argument list, with a resume target the only
\* --resume carries the target; with a session id and no resume target it
\* carries "latest"; with neither there is none; there is never more than
\* one --resume and never a --session-id.
C33_GeminiResumeBeforeSessionId ==
    "gemini" \in argv.built =>
        /\ CountFlag(argv.gemini, "--resume") <= 1
        /\ ~HasFlag(argv.gemini, "--session-id")
        /\ Truthy(argOptions.resumeSession) =>
              /\ HasFlagValue(argv.gemini, "--resume", <<argOptions.resumeSession>>)
              /\ ~HasFlag(argv.gemini, "latest")
        /\ (~Truthy(argOptions.resumeSession) /\ Truthy(argOptions.sessionId)) =>
              HasFlagValue(argv.gemini, "--resume", <<"latest">>)
        /\ (~Truthy(argOptions.resumeSession) /\ ~Truthy(argOptions.sessionId)) =>
              ~HasFlag(argv.gemini, "--resume")

C33_Witness ==
    /\ "gemini" \in argv.built
    /\ argOptions.resumeSession = "r1"
    /\ argOptions.sessionId = "s1"
    /\ HasFlagValue(argv.gemini, "--resume", <<"r1">>)
    /\ CountFlag(argv.gemini, "--resume") = 1

\* the forms the prompt argument takes: the prompt itself, or one of the
\* two rewrites
PromptForms ==
    {<<argOptions.prompt>>,
     <<"System: ", argOptions.systemPrompt, "\n\nUser: ", argOptions.prompt>>,
     <<argOptions.appendSystemPrompt, "\n\n", argOptions.prompt>>}

\* the last element of args is the prompt argument and no earlier one is
PromptIsLast(args) ==
    /\ Len(args) > 0
    /\ Last(args) \in PromptForms
    /\ \A k \in 1..(Len(args) - 1) : args[k] \notin PromptForms

\* C34: in the gemini and the claude argument list of buffered execution
\* and in the argument list of streaming, the prompt (as it is, or
\* rewritten) is the last element, whatever optional fields are set.
C34_PromptIsLastArgument ==
    /\ "gemini" \in argv.built => PromptIsLast(argv.gemini)
    /\ "claude" \in argv.built => PromptIsLast(argv.claude)
    /\ "stream" \in argv.built => PromptIsLast(argv.stream)

C34_Witness ==
    /\ argv.built = {"gemini", "claude", "stream"}
    /\ argOptions.mcpConfig # <<>>
    /\ argOptions.sessionId # Undefined
    /\ Last(argv.gemini) = <<argOptions.prompt>>
    /\ Last(argv.claude) = <<argOptions.prompt>>
    /\ Last(argv.stream) = <<argOptions.prompt>>

\* ---------------------------------------------------------------------
\* Properties of POST /api/batch
\* ---------------------------------------------------------------------

\* the number of prompts of the batch request
BatchSize == Len(req.body.prompts)

\* the batch request passed the two checks of the handler
BatchAccepted ==
    /\ req.endpoint = "batch"
    /\ pc # "idle"
    /\ req.body.isArray
    /\ BatchSize \in 1..MaxBatchPrompts

\* the indices of the entries of a results or errors list
IndicesOf(entries) == {entries[k].index : k \in 1..Len(entries)}

\* the steps that take a batch towards its response
BatchProgress ==
    \/ \E i \in 1..2 : TimerFire(i) \/ ErrorEvent(i) \/ CloseEvent(i)
    \/ PrimarySucceeded
    \/ PrimaryFailedFallback
    \/ PrimaryFailedNoFallback
    \/ FallbackSucceeded
    \/ FallbackFailed
    \/ BatchNextItem
    \/ BatchRespond

\* C22: a batch of more than 10 prompts is rejected with status 400 and
\* nothing is executed for it: executeAICLI is never called and no process
\* is spawned.
C22_OversizedBatchSpawnsNothing ==
    (req.endpoint = "batch" /\ BatchSize > 10) =>
        /\ spawned = <<>>
        /\ batch.calls = <<>>
        /\ \A k \in 1..2 : proc[k].os = "none"
        /\ pc = "done" => response.status = 400

C22_Witness ==
    /\ req.endpoint = "batch"
    /\ BatchSize = 11
    /\ pc = "done"
    /\ response.status = 400
    /\ spawned = <<>>

\* C23: no process of a later item runs while a process spawned for an
\* earlier item has not exited.
C23_ItemsNeverOverlap ==
    ~(batch.running > 0 /\ \E k \in 1..2 : proc[k].os = "running")

\* C24: in an accepted batch executeAICLI is called once for every item, in
\* input order, whatever the earlier items did; a failed item is an entry
\* of the errors list with its index and its failure message; the batch is
\* never stuck before its response, which has status 200.
C24_FailureDoesNotAbortBatch ==
    BatchAccepted =>
        /\ batch.calls = [k \in 1..Len(batch.calls) |-> k - 1]
        /\ Len(batch.calls) <= BatchSize
        /\ Len(batch.results) + Len(batch.errors)
             = IF pc = "done" THEN BatchSize ELSE Len(batch.calls) - 1
        /\ \A k \in 1..Len(batch.errors) :
              /\ batch.errors[k].index + 1 \in DOMAIN batch.calls
              /\ batch.errors[k].error # <<>>
        /\ (pc = "settled" /\ result.kind = "throw") =>
              ErrorEntry(batch.i, result).error = result.error.message
        /\ pc = "done" => Len(batch.calls) = BatchSize /\ response.status = 200
        /\ pc # "done" => ENABLED BatchProgress

C24_Witness ==
    /\ BatchAccepted
    /\ pc = "done"
    /\ BatchSize = 2
    /\ IndicesOf(batch.errors) = {0}
    /\ IndicesOf(batch.results) = {1}
    /\ response.status = 200

\* C25: the response of an accepted batch of n items has every index
\* 0..n-1 in exactly one of the results and errors lists, each entry at the
\* position of its item, and a summary with total = n, successful = the
\* number of results, failed = the number of errors.
C25_BatchAccountsForEveryItem ==
    (BatchAccepted /\ pc = "done") =>
        /\ IndicesOf(response.results) \cup IndicesOf(response.errors)
             = 0..(BatchSize - 1)
        /\ IndicesOf(response.results) \cap IndicesOf(response.errors) = {}
        /\ Len(response.results) + Len(response.errors) = BatchSize
        /\ \A k \in 1..Len(response.results) :
              LET e == response.results[k]
              IN /\ e.success
                 /\ e.fallbackUsed = "false" =>
                       e.usedCLI = PrimaryCLI(CliToUse(ItemOptions(req.body, e.index),
                                                       Undefined))
        /\ \A k \in 1..Len(response.errors) : ~response.errors[k].success
        /\ response.summary.total = BatchSize
        /\ response.summary.successful = Len(response.results)
        /\ response.summary.failed = Len(response.errors)
        /\ response.summary.successful + response.summary.failed
             = response.summary.total
        /\ response.success <=> Len(response.errors) = 0

C25_Witness ==
    /\ BatchAccepted
    /\ pc = "done"
    /\ BatchSize = 2
    /\ IndicesOf(response.results) = {0}
    /\ IndicesOf(response.errors) = {1}
    /\ response.summary = [total |-> 2, successful |-> 1, failed |-> 1]

\* what validateRequest calls malformed
Malformed(body) == Len(validateRequest(body)) > 0

\* C26: a malformed or oversized request never spawns a process and is
\* answered with a validation failure: on /api/ask, /api/process and
\* /api/stream for the body, on /api/batch for the options of each item.
C26_MalformedNeverSpawns ==
    IF req.endpoint = "batch"
    THEN \A k \in 1..Len(batch.calls) :
            ~Malformed(ItemOptions(req.body, batch.calls[k]))
    ELSE (req.endpoint \in {"ask", "process", "stream"} /\ Malformed(req.body)) =>
            /\ spawned = <<>>
            /\ cliProcess = <<>>
            /\ pc = "done" => response.status = 400

\* ---------------------------------------------------------------------
\* Properties of the responses of /api/ask and /api/process
\* ---------------------------------------------------------------------

\* the output format the handler hands to parseOutput
ParseFormat ==
    IF req.endpoint = "ask" THEN options.outputFormat
    ELSE JsOr(req.body.outputFormat, "json")

\* executeAICLI returned output that JSON.parse rejects, and json is expected
Undecodable ==
    /\ req.endpoint \in {"ask", "process"}
    /\ result.kind = "return"
    /\ ParseFormat = "json"
    /\ ~JSONParses(result.stdout)

\* C27: when an attempt succeeded and its output cannot be decoded as
\* json, the request is answered with status 200 and the raw text tagged
\* as unparsed; no process is spawned because of it (a primary that
\* succeeded is never followed by a fallback attempt).
C27_DecodingIsNeverFatal ==
    Undecodable =>
        /\ Len(spawned) = IF result.fallbackUsed = "true" THEN 2 ELSE 1
        /\ PrimaryOk => ~FallbackAttempted
        /\ pc = "done" =>
              /\ response.status = 200
              /\ response.data.raw
              /\ response.data.value = result.stdout

C27_Witness ==
    /\ Undecodable
    /\ pc = "done"
    /\ PrimaryOk
    /\ response.status = 200
    /\ response.data.raw

\* C28: every successful response of /api/ask and /api/process, and every
\* result entry of a batch, carries usedCLI and fallbackUsed, whatever the
\* form of the backend output.
C28_ResponsesCarryUsedCLI ==
    IF req.endpoint = "batch"
    THEN \A k \in 1..Len(batch.results) :
            /\ batch.results[k].usedCLI \in Backends
            /\ batch.results[k].fallbackUsed \in {"true", "false"}
    ELSE (req.endpoint \in {"ask", "process"} /\ pc = "done" /\ response.status = 200) =>
            /\ response.usedCLI \in Backends
            /\ response.fallbackUsed \in {"true", "false"}

====
